---- MODULE Spec2Model ----
(***************************************************************************)
(* State-machine model of src/src/App.tsx (the DreamAbode root component). *)
(*                                                                         *)
(* Two groups of handlers are modelled:                                    *)
(*   - the Live API handlers (startLiveSession, its session callbacks,     *)
(*     stopLiveSession, playAudioChunk, processAudioQueue), specification  *)
(*     SpecLive;                                                           *)
(*   - the generation handlers (handleImageUpload, handleSendMessage,      *)
(*     handleGenerateImage, handleGenerateVideo and the buttons that call  *)
(*     them), specification SpecGen.                                       *)
(* JavaScript runs each handler to its next await without interleaving, so *)
(* one action is one run of a handler from an await point (or its entry)   *)
(* to the next await point (or its end).                                   *)
(***************************************************************************)
EXTENDS Naturals, Integers, Sequences, FiniteSets

\* ---------------------------------------------------------------- bounds
\* startLiveSession invocations in one behaviour
MaxStarts == 1
\* audio chunks delivered by onmessage in one behaviour
MaxChunks == 3

\* handleSendMessage / handleGenerateImage / handleGenerateVideo invocations
MaxGens == 2
\* "not done" answers one video operation gives before it reports done
MaxPolls == 1
\* parts in one image-edit response
MaxParts == 2

Starts == 1..MaxStarts
Gens == 1..MaxGens

VARIABLES
    \* ---- React state and refs of the Live API (App.tsx 26-34)
    isLiveActive,      \* useState(false)
    audioContextRef,   \* 0 = null, i = the AudioContext created by start i
    mediaStreamRef,    \* 0 = null, i = the MediaStream obtained by start i
    processorRef,      \* 0 = null, i = the ScriptProcessorNode created by onopen of i
    liveSessionRef,    \* 0 = null, i = the session returned to start i
    audioQueueRef,     \* sequence of chunk ids
    isPlayingRef,      \* BOOLEAN
    \* ---- control state of the asynchronous handlers
    startPc,           \* startPc[i]: where startLiveSession invocation i stands
    onopenPc,          \* onopenPc[i]: where the onopen callback of session i stands
    \* ---- browser / remote resources the handlers acquire
    ctxState,          \* "none" | "open" | "closed"
    streamState,       \* "none" | "capturing" | "stopped"
    procState,         \* "none" | "connected" | "disconnected"
    sessState,         \* "none" | "connecting" | "open" | "errored" | "closed" | "refused"
    playing,           \* buffer sources started whose onended has not fired
    \* ---- inputs and history
    nStarts,           \* startLiveSession invocations so far
    nChunks,           \* audio chunks delivered so far (chunk ids are arrival order)
    started,           \* history: chunk ids in the order source.start() was called
    discarded,         \* history: chunks received before an 'interrupted' message was handled
    stopAt,            \* history: nStarts when stopLiveSession last ran, -1 if never
    \* ---- React state of the generation handlers (App.tsx 17-25)
    image,             \* 0 = null, 1 = the uploaded data URL
    generatedImage,    \* 0 = null, 1 = a data URL built from a response part
    generatedVideo,    \* 0 = null, 1 = an object URL of a fetched video
    isGenerating,      \* useState(false)
    chatInput,         \* "" | " " (whitespace only) | "hi"
    messages,          \* sequence of [role, text, image, by]; by = appending invocation (history)
    activeTab,         \* "chat" | "generate"
    \* ---- control state of the asynchronous handlers
    gen,               \* gen[i]: kind, pc, polls, outcome, overlapped of invocation i
    nGens,             \* invocations so far
    reading            \* a FileReader read has started and its onloadend has not fired

liveVars == <<isLiveActive, audioContextRef, mediaStreamRef, processorRef,
              liveSessionRef, audioQueueRef, isPlayingRef, startPc, onopenPc,
              ctxState, streamState, procState, sessState, playing,
              nStarts, nChunks, started, discarded, stopAt>>

genVars == <<image, generatedImage, generatedVideo, isGenerating, chatInput,
             messages, activeTab, gen, nGens, reading>>

vars == <<liveVars, genVars>>

\* ------------------------------------------------------------------ Init
InitLive ==
    /\ isLiveActive = FALSE
    /\ audioContextRef = 0
    /\ mediaStreamRef = 0
    /\ processorRef = 0
    /\ liveSessionRef = 0
    /\ audioQueueRef = <<>>
    /\ isPlayingRef = FALSE
    /\ startPc = [i \in Starts |-> "idle"]
    /\ onopenPc = [i \in Starts |-> "none"]
    /\ ctxState = [i \in Starts |-> "none"]
    /\ streamState = [i \in Starts |-> "none"]
    /\ procState = [i \in Starts |-> "none"]
    /\ sessState = [i \in Starts |-> "none"]
    /\ playing = {}
    /\ nStarts = 0
    /\ nChunks = 0
    /\ started = <<>>
    /\ discarded = {}
    /\ stopAt = -1

\* --------------------------------------------------------- audio playback
\* audioQueueRef.current.shift(): the head, and the queue without it
PopChunk(q) == [chunk |-> q[Len(q)], rest |-> SubSeq(q, 1, Len(q) - 1)]
ShiftChunk(q) == [chunk |-> Head(q), rest |-> Tail(q)]

\* processAudioQueue: runs synchronously (it holds no await).  With an empty
\* queue it clears isPlayingRef.  Otherwise it shifts one chunk; with an audio
\* context and a chunk whose decode does not throw it starts a buffer source
\* and returns, else (no context, or the try block threw) it calls itself
\* again.  Whether a chunk's payload decodes is an input: the operator yields
\* the set of outcomes over both answers for every chunk it shifts.
RECURSIVE ProcessAudioQueue(_, _)
ProcessAudioQueue(q, ctx) ==
    IF Len(q) = 0
    THEN {[queue |-> q, isPlaying |-> FALSE, start |-> 0]}
    ELSE LET s == ShiftChunk(q) IN
         (IF ctx # 0
          THEN {[queue |-> s.rest, isPlaying |-> TRUE, start |-> s.chunk]}
          ELSE {})
         \cup ProcessAudioQueue(s.rest, ctx)

\* The effect of one processAudioQueue call on the refs, the sources and the history
RunProcessAudioQueue(q, others) ==
    \E r \in ProcessAudioQueue(q, audioContextRef) :
       /\ audioQueueRef' = r.queue
       /\ isPlayingRef' = r.isPlaying
       /\ playing' = IF r.start # 0
                     THEN others \cup {[chunk |-> r.start, ctx |-> audioContextRef]}
                     ELSE others
       /\ started' = IF r.start # 0 THEN Append(started, r.start) ELSE started

\* playAudioChunk: push, then processAudioQueue unless a chunk is marked playing
PlayAudioChunk(c) ==
    IF ~isPlayingRef
    THEN RunProcessAudioQueue(Append(audioQueueRef, c), playing)
    ELSE /\ audioQueueRef' = Append(audioQueueRef, c)
         /\ UNCHANGED <<isPlayingRef, playing, started>>

\* The queue the 'interrupted' branch of onmessage leaves
KeepQueueOnInterrupt(q) == q
InterruptedQueue(q) == <<>>

\* ------------------------------------------------------- stopLiveSession
LeakMediaStream ==
    /\ streamState' = IF mediaStreamRef # 0
                      THEN [streamState EXCEPT ![mediaStreamRef] = "stopped"]
                      ELSE streamState
    /\ mediaStreamRef' = mediaStreamRef
\* if (mediaStreamRef.current) { getTracks().forEach(stop); mediaStreamRef.current = null }
StopMediaStream ==
    /\ streamState' = IF mediaStreamRef # 0
                      THEN [streamState EXCEPT ![mediaStreamRef] = "stopped"]
                      ELSE streamState
    /\ mediaStreamRef' = 0

StopLiveSession ==
    /\ isLiveActive' = FALSE
    /\ procState' = IF processorRef # 0
                    THEN [procState EXCEPT ![processorRef] = "disconnected"]
                    ELSE procState
    /\ processorRef' = 0
    /\ StopMediaStream
    /\ ctxState' = IF audioContextRef # 0
                   THEN [ctxState EXCEPT ![audioContextRef] = "closed"]
                   ELSE ctxState
    /\ audioContextRef' = 0
    /\ liveSessionRef' = 0
    /\ stopAt' = nStarts

\* ------------------------------------------------------ startLiveSession
\* Click on "Voice Chat" (rendered while ~isLiveActive): setIsLiveActive(true),
\* new AudioContext, then await getUserMedia
StartLiveSession ==
    /\ ~isLiveActive
    /\ nStarts < MaxStarts
    /\ LET i == nStarts + 1 IN
       /\ nStarts' = i
       /\ isLiveActive' = TRUE
       /\ ctxState' = [ctxState EXCEPT ![i] = "open"]
       /\ audioContextRef' = i
       /\ startPc' = [startPc EXCEPT ![i] = "getUserMedia"]
    /\ UNCHANGED <<genVars, mediaStreamRef, processorRef, liveSessionRef, audioQueueRef,
                   isPlayingRef, onopenPc, streamState, procState, sessState,
                   playing, nChunks, started, discarded, stopAt>>

\* The AudioContext constructor throws: the catch block runs
StartContextThrows ==
    /\ ~isLiveActive
    /\ nStarts < MaxStarts
    /\ LET i == nStarts + 1 IN
       /\ nStarts' = i
       /\ startPc' = [startPc EXCEPT ![i] = "failed"]
    /\ isLiveActive' = FALSE
    /\ UNCHANGED <<genVars, audioContextRef, mediaStreamRef, processorRef, liveSessionRef,
                   audioQueueRef, isPlayingRef, onopenPc, ctxState, streamState,
                   procState, sessState, playing, nChunks, started,
                   discarded, stopAt>>

\* getUserMedia resolves: mediaStreamRef.current = stream; ai.live.connect is called
GetUserMediaResolves(i) ==
    /\ startPc[i] = "getUserMedia"
    /\ streamState' = [streamState EXCEPT ![i] = "capturing"]
    /\ mediaStreamRef' = i
    /\ sessState' = [sessState EXCEPT ![i] = "connecting"]
    /\ startPc' = [startPc EXCEPT ![i] = "connect"]
    /\ UNCHANGED <<genVars, isLiveActive, audioContextRef, processorRef, liveSessionRef,
                   audioQueueRef, isPlayingRef, onopenPc, ctxState, procState,
                   playing, nStarts, nChunks, started, discarded, stopAt>>

\* getUserMedia rejects: catch { setIsLiveActive(false) }
GetUserMediaRejects(i) ==
    /\ startPc[i] = "getUserMedia"
    /\ startPc' = [startPc EXCEPT ![i] = "failed"]
    /\ isLiveActive' = FALSE
    /\ UNCHANGED <<genVars, audioContextRef, mediaStreamRef, processorRef, liveSessionRef,
                   audioQueueRef, isPlayingRef, onopenPc, ctxState, streamState,
                   procState, sessState, playing, nStarts, nChunks, started, discarded, stopAt>>

\* The body of onopen after its optional await: create the source and the
\* script processor on audioContextRef.current and store the processor.  With
\* audioContextRef.current null the non-null assertion dereferences null and
\* the async callback rejects without any effect.
OnOpenBody(i) ==
    IF audioContextRef # 0
    THEN /\ procState' = [procState EXCEPT ![i] = "connected"]
         /\ processorRef' = i
    ELSE UNCHANGED <<procState, processorRef>>

\* onopen fires for session i.  A suspended context makes it await resume().
OnOpen(i) ==
    /\ sessState[i] = "connecting"
    /\ sessState' = [sessState EXCEPT ![i] = "open"]
    /\ \/ /\ audioContextRef # 0
          /\ onopenPc' = [onopenPc EXCEPT ![i] = "resume"]
          /\ UNCHANGED <<procState, processorRef>>
       \/ /\ onopenPc' = [onopenPc EXCEPT ![i] = "done"]
          /\ OnOpenBody(i)
    /\ UNCHANGED <<genVars, isLiveActive, audioContextRef, mediaStreamRef, liveSessionRef,
                   audioQueueRef, isPlayingRef, startPc, ctxState, streamState,
                   playing, nStarts, nChunks, started, discarded, stopAt>>

\* resume() settles and onopen continues
OnOpenResumed(i) ==
    /\ onopenPc[i] = "resume"
    /\ onopenPc' = [onopenPc EXCEPT ![i] = "done"]
    /\ OnOpenBody(i)
    /\ UNCHANGED <<genVars, isLiveActive, audioContextRef, mediaStreamRef, liveSessionRef,
                   audioQueueRef, isPlayingRef, startPc, ctxState, streamState,
                   sessState, playing, nStarts, nChunks, started,
                   discarded, stopAt>>

\* ai.live.connect resolves (after onopen): liveSessionRef.current = session
ConnectResolves(i) ==
    /\ startPc[i] = "connect"
    /\ sessState[i] \in {"open", "errored", "closed"}
    /\ liveSessionRef' = i
    /\ startPc' = [startPc EXCEPT ![i] = "done"]
    /\ UNCHANGED <<genVars, isLiveActive, audioContextRef, mediaStreamRef, processorRef,
                   audioQueueRef, isPlayingRef, onopenPc, ctxState, streamState,
                   procState, sessState, playing, nStarts, nChunks, started, discarded, stopAt>>

\* ai.live.connect rejects: catch { setIsLiveActive(false) }
ConnectRejects(i) ==
    /\ startPc[i] = "connect"
    /\ sessState[i] = "connecting"
    /\ sessState' = [sessState EXCEPT ![i] = "refused"]
    /\ startPc' = [startPc EXCEPT ![i] = "failed"]
    /\ isLiveActive' = FALSE
    /\ UNCHANGED <<genVars, audioContextRef, mediaStreamRef, processorRef, liveSessionRef,
                   audioQueueRef, isPlayingRef, onopenPc, ctxState, streamState,
                   procState, playing, nStarts, nChunks, started,
                   discarded, stopAt>>

\* ------------------------------------------------------ session callbacks
\* onmessage with audio data: playAudioChunk(audioData)
OnMessageAudio(i) ==
    /\ sessState[i] = "open"
    /\ nChunks < MaxChunks
    /\ LET c == nChunks + 1 IN
       /\ nChunks' = c
       /\ PlayAudioChunk(c)
    /\ UNCHANGED <<genVars, isLiveActive, audioContextRef, mediaStreamRef, processorRef,
                   liveSessionRef, startPc, onopenPc, ctxState, streamState,
                   procState, sessState, nStarts, discarded, stopAt>>

\* onmessage with serverContent.interrupted: clear the queue, isPlaying = false
OnMessageInterrupted(i) ==
    /\ sessState[i] = "open"
    /\ audioQueueRef' = InterruptedQueue(audioQueueRef)
    /\ isPlayingRef' = FALSE
    /\ discarded' = 1..nChunks
    /\ UNCHANGED <<genVars, isLiveActive, audioContextRef, mediaStreamRef, processorRef,
                   liveSessionRef, startPc, onopenPc, ctxState, streamState,
                   procState, sessState, playing, nStarts, nChunks, started, stopAt>>

\* onclose: stopLiveSession().  The socket closes from the open state or after
\* it reported an error.
OnClose(i) ==
    /\ sessState[i] \in {"open", "errored"}
    /\ StopLiveSession
    /\ sessState' = [sessState EXCEPT ![i] = "closed"]
    /\ UNCHANGED <<genVars, audioQueueRef, isPlayingRef, startPc, onopenPc, playing,
                   nStarts, nChunks, started, discarded>>

\* onerror: stopLiveSession().  A socket that reported an error delivers no
\* further message and closes next.
OnError(i) ==
    /\ sessState[i] = "open"
    /\ StopLiveSession
    /\ sessState' = [sessState EXCEPT ![i] = "errored"]
    /\ UNCHANGED <<genVars, audioQueueRef, isPlayingRef, startPc, onopenPc, playing,
                   nStarts, nChunks, started, discarded>>

\* Click on "End Voice Chat" (rendered while isLiveActive): stopLiveSession()
ClickStop ==
    /\ isLiveActive
    /\ StopLiveSession
    /\ UNCHANGED <<genVars, audioQueueRef, isPlayingRef, startPc, onopenPc, sessState,
                   playing, nStarts, nChunks, started, discarded>>

\* source.onended: processAudioQueue()
OnEnded(p) ==
    /\ p \in playing
    /\ RunProcessAudioQueue(audioQueueRef, playing \ {p})
    /\ UNCHANGED <<genVars, isLiveActive, audioContextRef, mediaStreamRef, processorRef,
                   liveSessionRef, startPc, onopenPc, ctxState, streamState,
                   procState, sessState, nStarts, nChunks, discarded,
                   stopAt>>

NextLive ==
    \/ StartLiveSession
    \/ StartContextThrows
    \/ ClickStop
    \/ \E i \in Starts : GetUserMediaResolves(i)
    \/ \E i \in Starts : GetUserMediaRejects(i)
    \/ \E i \in Starts : OnOpen(i)
    \/ \E i \in Starts : OnOpenResumed(i)
    \/ \E i \in Starts : ConnectResolves(i)
    \/ \E i \in Starts : ConnectRejects(i)
    \/ \E i \in Starts : OnMessageAudio(i)
    \/ \E i \in Starts : OnMessageInterrupted(i)
    \/ \E i \in Starts : OnClose(i)
    \/ \E i \in Starts : OnError(i)
    \/ \E p \in playing : OnEnded(p)

\* ================================================= generation handlers
InitGen ==
    /\ image = 0
    /\ generatedImage = 0
    /\ generatedVideo = 0
    /\ isGenerating = FALSE
    /\ chatInput = ""
    /\ messages = <<[role |-> "model", text |-> "welcome", image |-> 0, by |-> 0]>>
    /\ activeTab = "chat"
    /\ gen = [i \in Gens |-> [kind |-> "none", pc |-> "idle", polls |-> 0,
                              outcome |-> "none", overlapped |-> FALSE]]
    /\ nGens = 0
    /\ reading = FALSE

ChatInputs == {"", " ", "hi"}

\* chatInput.trim()
Trim(s) == IF s = " " THEN "" ELSE s

\* addMessage(role, text, img): setMessages(prev => [...prev, {role, text, image}])
AddMessage(msgs, role, text, img, by) ==
    Append(msgs, [role |-> role, text |-> text, image |-> img, by |-> by])

\* Invocations that have started and not ended
Active == {i \in Gens : gen[i].pc \notin {"idle", "done"}}

\* A new invocation record; it and every invocation still active overlap
Begin(i, kind, pc) ==
    [j \in Gens |->
        IF j = i
        THEN [kind |-> kind, pc |-> pc, polls |-> 0, outcome |-> "none",
              overlapped |-> (Active # {})]
        ELSE IF j \in Active THEN [gen[j] EXCEPT !.overlapped = TRUE] ELSE gen[j]]

\* Invocation i ends with the given outcome
End(i, outcome) == [gen EXCEPT ![i].pc = "done", ![i].outcome = outcome]

\* finally { setIsGenerating(false) }
FinallyKeepsGenerating == isGenerating
FinallyIsGenerating == FALSE

\* ---- handleImageUpload
\* onChange of the file input (rendered while image is null): readAsDataURL.
\* The file dialog yields one file at a time; a second file chosen while the
\* first is still being read is not modelled.
HandleImageUpload ==
    /\ image = 0
    /\ ~reading
    /\ reading' = TRUE
    /\ UNCHANGED <<liveVars, image, generatedImage, generatedVideo, isGenerating, chatInput,
                   messages, activeTab, gen, nGens>>

\* The two addMessage calls of reader.onloadend: the user message carrying
\* the image, then the model's prompt
UploadMessagesSwapped(msgs, img) ==
    AddMessage(AddMessage(msgs, "model", "great", 0, 0), "user", "uploaded", img, 0)
UploadMessages(msgs, img) ==
    AddMessage(AddMessage(msgs, "user", "uploaded", img, 0), "model", "great", 0, 0)

\* reader.onloadend of a read that succeeded: reader.result is the data URL.
\* A read that ends in an error (reader.result null) is not modelled.
ReaderLoadEnd ==
    /\ reading
    /\ reading' = FALSE
    /\ image' = 1
    /\ activeTab' = "generate"
    /\ messages' = UploadMessages(messages, 1)
    /\ UNCHANGED <<liveVars, generatedImage, generatedVideo, isGenerating, chatInput, gen, nGens>>

\* ---- plain UI state changes
\* onChange of the chat input / the textarea
SetChatInput(v) ==
    /\ v # chatInput
    /\ chatInput' = v
    /\ UNCHANGED <<liveVars, image, generatedImage, generatedVideo, isGenerating, messages,
                   activeTab, gen, nGens, reading>>

\* the two tab buttons, and the "Generate Ideas" card
SetActiveTab(t) ==
    /\ t # activeTab
    /\ activeTab' = t
    /\ UNCHANGED <<liveVars, image, generatedImage, generatedVideo, isGenerating, chatInput,
                   messages, gen, nGens, reading>>

\* the Reset button (rendered while image is set)
ClickReset ==
    /\ image # 0
    /\ generatedImage' = 0
    /\ generatedVideo' = 0
    /\ UNCHANGED <<liveVars, image, isGenerating, chatInput, messages, activeTab, gen, nGens,
                   reading>>

\* ---- handleSendMessage
\* The send button or Enter in the chat input (rendered on the chat tab); the
\* handler returns at once when the input is blank and there is no image.
HandleSendMessage ==
    /\ activeTab = "chat"
    /\ ~(Trim(chatInput) = "" /\ image = 0)
    /\ nGens < MaxGens
    /\ LET i == nGens + 1 IN
       /\ nGens' = i
       /\ chatInput' = ""
       /\ messages' = AddMessage(messages, "user", chatInput, 0, i)
       /\ isGenerating' = TRUE
       /\ gen' = Begin(i, "send", "generateContent")
    /\ UNCHANGED <<liveVars, image, generatedImage, generatedVideo, activeTab, reading>>

\* generateContent resolves: the reply is appended when response.text is non-empty
SendResolves(i) ==
    /\ gen[i].kind = "send"
    /\ gen[i].pc = "generateContent"
    /\ \E hasText \in BOOLEAN :
          /\ messages' = IF hasText
                         THEN AddMessage(messages, "model", "reply", 0, i)
                         ELSE messages
          /\ gen' = End(i, IF hasText THEN "ok" ELSE "empty")
    /\ isGenerating' = FinallyIsGenerating
    /\ UNCHANGED <<liveVars, image, generatedImage, generatedVideo, chatInput, activeTab,
                   nGens, reading>>

\* generateContent rejects: catch, finally
SendThrows(i) ==
    /\ gen[i].kind = "send"
    /\ gen[i].pc = "generateContent"
    /\ messages' = AddMessage(messages, "model", "chatApology", 0, i)
    /\ gen' = End(i, "threw")
    /\ isGenerating' = FinallyIsGenerating
    /\ UNCHANGED <<liveVars, image, generatedImage, generatedVideo, chatInput, activeTab,
                   nGens, reading>>

\* ---- handleGenerateImage
\* setGeneratedImage(null) before the request
StaleGeneratedImage == generatedImage
ClearedGeneratedImage == 0

\* handleGenerateImage up to its await
GenerateImageBegins ==
    /\ image # 0
    /\ nGens < MaxGens
    /\ nGens' = nGens + 1
    /\ isGenerating' = TRUE
    /\ generatedImage' = ClearedGeneratedImage
    /\ gen' = Begin(nGens + 1, "image", "generateContent")
    /\ UNCHANGED <<liveVars, image, generatedVideo, messages, activeTab, reading>>

\* The Generate button: handleGenerateImage(chatInput); setChatInput('')
ClickGenerate ==
    /\ activeTab # "chat"
    /\ ~(image = 0 \/ Trim(chatInput) = "" \/ isGenerating)
    /\ GenerateImageBegins
    /\ chatInput' = ""

\* A preset-style button
ClickPreset ==
    /\ activeTab # "chat"
    /\ ~(image = 0 \/ isGenerating)
    /\ GenerateImageBegins
    /\ UNCHANGED chatInput

\* A quick-action button of the hover overlay (rendered while image is set)
ClickQuickAction ==
    /\ image # 0
    /\ GenerateImageBegins
    /\ UNCHANGED chatInput

\* The responses generateContent can resolve with: no candidates, or up to
\* MaxParts parts, each an inline image or text
RECURSIVE PartSeqs(_)
PartSeqs(n) ==
    IF n = 0 THEN {<<>>}
    ELSE LET shorter == PartSeqs(n - 1) IN
         shorter \cup {Append(ps, p) : ps \in {x \in shorter : Len(x) = n - 1},
                                       p \in {"inlineData", "text"}}

Responses == {[candidates |-> FALSE, parts |-> <<>>]}
             \cup {[candidates |-> TRUE, parts |-> ps] : ps \in PartSeqs(MaxParts)}

\* The loop over response.candidates[0].content.parts: for every part with
\* inlineData, setGeneratedImage(imgUrl), foundImage = true, addMessage
RECURSIVE ExtractImage(_, _, _)
ExtractImage(parts, i, acc) ==
    IF Len(parts) = 0 THEN acc
    ELSE ExtractImage(Tail(parts), i,
            IF Head(parts) = "inlineData"
            THEN [generatedImage |-> 1, foundImage |-> TRUE,
                  messages |-> AddMessage(acc.messages, "model", "idea", 1, i)]
            ELSE acc)

\* generateContent resolves
ImageResolves(i) ==
    /\ gen[i].kind = "image"
    /\ gen[i].pc = "generateContent"
    /\ \E resp \in Responses :
          LET r == ExtractImage(IF resp.candidates THEN resp.parts ELSE <<>>, i,
                                [generatedImage |-> generatedImage,
                                 foundImage |-> FALSE, messages |-> messages]) IN
          /\ generatedImage' = r.generatedImage
          /\ messages' = IF r.foundImage
                         THEN r.messages
                         ELSE AddMessage(r.messages, "model", "imageFallback", 0, i)
          /\ gen' = End(i, IF r.foundImage THEN "ok" ELSE "empty")
    /\ isGenerating' = FinallyIsGenerating
    /\ UNCHANGED <<liveVars, image, generatedVideo, chatInput, activeTab, nGens, reading>>

\* generateContent rejects: catch, finally
ImageThrows(i) ==
    /\ gen[i].kind = "image"
    /\ gen[i].pc = "generateContent"
    /\ messages' = AddMessage(messages, "model", "imageApology", 0, i)
    /\ gen' = End(i, "threw")
    /\ isGenerating' = FinallyIsGenerating
    /\ UNCHANGED <<liveVars, image, generatedImage, generatedVideo, chatInput, activeTab,
                   nGens, reading>>

\* ---- handleGenerateVideo
\* The Create Walkthrough card (rendered while image is set)
HandleGenerateVideo ==
    /\ ~(image = 0 /\ generatedImage = 0)
    /\ image # 0
    /\ nGens < MaxGens
    /\ LET i == nGens + 1 IN
       /\ nGens' = i
       /\ isGenerating' = TRUE
       /\ generatedVideo' = 0
       /\ messages' = AddMessage(messages, "model", "videoProgress", 0, i)
       /\ gen' = Begin(i, "video", "generateVideos")
    /\ UNCHANGED <<liveVars, image, generatedImage, chatInput, activeTab, reading>>

\* After the poll loop: with a video URI the video is fetched, without one the
\* failure message is appended and the handler ends
AfterPoll(i, hasUri) ==
    IF hasUri
    THEN /\ gen' = [gen EXCEPT ![i].pc = "fetch"]
         /\ UNCHANGED <<messages, isGenerating>>
    ELSE /\ messages' = AddMessage(messages, "model", "videoNoUri", 0, i)
         /\ gen' = End(i, "empty")
         /\ isGenerating' = FinallyIsGenerating

\* generateVideos or getVideosOperation resolves with an operation: not done
\* leads into the 5 s sleep, done leaves the loop
OperationResolves(i) ==
    /\ gen[i].kind = "video"
    /\ gen[i].pc \in {"generateVideos", "getVideosOperation"}
    /\ \/ /\ gen[i].polls < MaxPolls
          /\ gen' = [gen EXCEPT ![i].pc = "sleep", ![i].polls = @ + 1]
          /\ UNCHANGED <<messages, isGenerating>>
       \/ \E hasUri \in BOOLEAN : AfterPoll(i, hasUri)
    /\ UNCHANGED <<liveVars, image, generatedImage, generatedVideo, chatInput, activeTab,
                   nGens, reading>>

\* The 5 s timer fires: getVideosOperation is requested
SleepEnds(i) ==
    /\ gen[i].kind = "video"
    /\ gen[i].pc = "sleep"
    /\ gen' = [gen EXCEPT ![i].pc = "getVideosOperation"]
    /\ UNCHANGED <<liveVars, image, generatedImage, generatedVideo, isGenerating, chatInput,
                   messages, activeTab, nGens, reading>>

\* fetch(videoUri) resolves: the body is read with blob()
FetchResolves(i) ==
    /\ gen[i].kind = "video"
    /\ gen[i].pc = "fetch"
    /\ gen' = [gen EXCEPT ![i].pc = "blob"]
    /\ UNCHANGED <<liveVars, image, generatedImage, generatedVideo, isGenerating, chatInput,
                   messages, activeTab, nGens, reading>>

\* blob() resolves: setGeneratedVideo(url), success message, finally
BlobResolves(i) ==
    /\ gen[i].kind = "video"
    /\ gen[i].pc = "blob"
    /\ generatedVideo' = 1
    /\ messages' = AddMessage(messages, "model", "videoReady", 0, i)
    /\ gen' = End(i, "ok")
    /\ isGenerating' = FinallyIsGenerating
    /\ UNCHANGED <<liveVars, image, generatedImage, chatInput, activeTab, nGens, reading>>

\* Any awaited call of handleGenerateVideo rejects: catch, finally
VideoThrows(i) ==
    /\ gen[i].kind = "video"
    /\ gen[i].pc \in {"generateVideos", "getVideosOperation", "fetch", "blob"}
    /\ messages' = AddMessage(messages, "model", "videoApology", 0, i)
    /\ gen' = End(i, "threw")
    /\ isGenerating' = FinallyIsGenerating
    /\ UNCHANGED <<liveVars, image, generatedImage, generatedVideo, chatInput, activeTab,
                   nGens, reading>>

NextGen ==
    \/ HandleImageUpload
    \/ ReaderLoadEnd
    \/ \E v \in ChatInputs : SetChatInput(v)
    \/ \E t \in {"chat", "generate"} : SetActiveTab(t)
    \/ ClickReset
    \/ HandleSendMessage
    \/ ClickGenerate
    \/ ClickPreset
    \/ ClickQuickAction
    \/ HandleGenerateVideo
    \/ \E i \in Gens : SendResolves(i)
    \/ \E i \in Gens : SendThrows(i)
    \/ \E i \in Gens : ImageResolves(i)
    \/ \E i \in Gens : ImageThrows(i)
    \/ \E i \in Gens : OperationResolves(i)
    \/ \E i \in Gens : SleepEnds(i)
    \/ \E i \in Gens : FetchResolves(i)
    \/ \E i \in Gens : BlobResolves(i)
    \/ \E i \in Gens : VideoThrows(i)

\* ======================================================== specifications
Init == InitLive /\ InitGen

Next == NextLive \/ NextGen

\* The whole component
Spec == Init /\ [][Next]_vars

\* The Live API handlers alone
SpecLive == Init /\ [][NextLive]_vars

\* The generation handlers alone
SpecGen == Init /\ [][NextGen]_vars


\* ====================================================== claims: Live API
StartedSet == {started[k] : k \in 1..Len(started)}
Audible == {p \in playing : ctxState[p.ctx] = "open"}

\* C1: returned audio chunks are replayed sequentially: in every reachable
\* state at most one started buffer source is still playing (its onended has
\* not fired and its audio context is open).
C1_AtMostOnePlaying == Cardinality(Audible) <= 1

\* C2: the playback queue is FIFO: chunks start playback in the order their
\* onmessage events arrived (chunk ids are arrival order) and no chunk starts
\* playback more than once.
C2_StartsInArrivalOrder ==
    \A j, k \in 1..Len(started) : j < k => started[j] < started[k]

\* C2 witness: two chunks have started, a later one is playing and another waits
C2_Witness ==
    /\ Len(started) >= 2
    /\ isPlayingRef
    /\ Len(audioQueueRef) >= 1
    /\ Audible # {}

\* Every startLiveSession invocation and every onopen callback has run to its end
AllStartsSettled ==
    \A i \in Starts : startPc[i] \in {"idle", "done", "failed"} /\ onopenPc[i] # "resume"

AllRefsNull ==
    /\ processorRef = 0
    /\ mediaStreamRef = 0
    /\ audioContextRef = 0
    /\ liveSessionRef = 0

\* C3: once stopLiveSession has run after the latest startLiveSession call and
\* every asynchronous step of the earlier startLiveSession calls has
\* completed, no microphone stream is capturing, no script processor is
\* connected, no audio context is open, no remote session is open and the
\* four refs are null.
C3_StopReleasesEverything ==
    (stopAt = nStarts /\ nStarts > 0 /\ AllStartsSettled) =>
        /\ \A i \in Starts : streamState[i] # "capturing"
        /\ \A i \in Starts : procState[i] # "connected"
        /\ \A i \in Starts : ctxState[i] # "open"
        /\ \A i \in Starts : sessState[i] # "open"
        /\ AllRefsNull

\* C6: an 'interrupted' message discards all pending audio: a chunk received
\* before a handled interruption and not yet started never starts playback.
C6_NoStartAfterInterrupt ==
    [][\A c \in discarded : c \in StartedSet' => c \in StartedSet]_vars

\* C6 witness: with the audio context never torn down, a chunk that was
\* waiting in the queue was dropped by an interruption and a later chunk started
C6_Witness ==
    /\ stopAt = -1
    /\ \E c \in discarded :
          /\ c \notin StartedSet
          /\ \E d \in StartedSet : d > c /\ d \notin discarded

\* C7: when the live session reports onclose or onerror (the step in which
\* its socket becomes closed or errored), afterwards isLiveActive is false and
\* processorRef, mediaStreamRef, audioContextRef and liveSessionRef are null.
C7_CloseOrErrorCleansUp ==
    [][\A i \in Starts :
          (sessState'[i] # sessState[i] /\ sessState'[i] \in {"closed", "errored"})
              => (~isLiveActive' /\ AllRefsNull')]_vars

\* C7 witness: onclose ran on an established session whose microphone stream
\* and script processor it released
C7_Witness ==
    \E i \in Starts :
        /\ sessState[i] = "closed"
        /\ startPc[i] = "done"
        /\ streamState[i] = "stopped"
        /\ procState[i] = "disconnected"
        /\ ~isLiveActive
        /\ AllRefsNull

\* C8: a startLiveSession invocation that fails ends with isLiveActive false
\* and with neither the audio context nor the microphone stream it acquired
\* still held.
C8_FailedStartReleases ==
    [][\A i \in Starts :
          (startPc[i] # "failed" /\ startPc'[i] = "failed") =>
              /\ ~isLiveActive'
              /\ ctxState'[i] # "open"
              /\ streamState'[i] # "capturing"]_vars

\* ============================================= claims: generation handlers
\* Invocations with a remote request in flight
InFlight ==
    {i \in Gens : gen[i].pc \in {"generateContent", "generateVideos",
                                 "getVideosOperation", "fetch", "blob"}}

\* Messages invocation i appended whose text is one of texts
Appended(msgs, i, texts) ==
    Cardinality({k \in 1..Len(msgs) : msgs[k].by = i /\ msgs[k].text \in texts})

Apologies == {"chatApology", "imageApology", "videoApology"}
ImageFallbacks == {"imageFallback", "imageApology"}
VideoOutcomes == {"videoReady", "videoNoUri", "videoApology"}

\* Invocation i ends in this step
Ends(i) == gen[i].pc \notin {"idle", "done"} /\ gen'[i].pc = "done"

\* C4: generation requests are sequential: at any time at most one of
\* handleSendMessage, handleGenerateImage and handleGenerateVideo has a remote
\* request in flight.
C4_AtMostOneInFlight == Cardinality(InFlight) <= 1

\* C5: no retry or recovery: when the remote call of an invocation throws,
\* the invocation ends in that step with no request in flight and never
\* leaves its end, its messages hold exactly one apology, of role model, and
\* isGenerating is false.
C5_ThrowEndsWithOneApology ==
    [][\A i \in Gens :
          /\ (gen[i].outcome # "threw" /\ gen'[i].outcome = "threw") =>
                /\ Ends(i)
                /\ i \notin InFlight'
                /\ Appended(messages', i, Apologies) = 1
                /\ \A k \in 1..Len(messages') :
                      (messages'[k].by = i /\ messages'[k].text \in Apologies)
                          => messages'[k].role = "model"
                /\ isGenerating' = FALSE
          /\ gen[i].pc = "done" =>
                /\ gen'[i] = gen[i]
                /\ Appended(messages', i, Apologies) = Appended(messages, i, Apologies)]_vars

\* C5 witness: each of the three handlers has an invocation that threw, one
\* of them a video invocation that threw after polling
C5_Witness ==
    /\ \E i \in Gens : gen[i].outcome = "threw" /\ gen[i].kind = "video" /\ gen[i].polls >= 1
    /\ \E i \in Gens : gen[i].outcome = "threw" /\ gen[i].kind # "video"

\* C9: a handleGenerateVideo invocation ends with isGenerating false, with
\* exactly one outcome message appended after its progress message, and with
\* generatedVideo non-null only when it succeeded.
C9_VideoEndsWithOneOutcome ==
    [][\A i \in Gens :
          (gen[i].kind = "video" /\ Ends(i)) =>
              /\ isGenerating' = FALSE
              /\ Appended(messages', i, {"videoProgress"}) = 1
              /\ Appended(messages', i, VideoOutcomes) = 1
              /\ generatedVideo' # 0 => gen'[i].outcome = "ok"]_vars

\* The awaited promises and the 5 s timer of every video invocation settle
FairSpecGen ==
    SpecGen /\ \A i \in Gens :
                  WF_vars(OperationResolves(i) \/ SleepEnds(i) \/ FetchResolves(i)
                          \/ BlobResolves(i) \/ VideoThrows(i))

\* The parts of C9 that hold under FairSpecGen: every video invocation ends,
\* and one that no other invocation overlapped leaves generatedVideo non-null
\* only when it succeeded
VideoTerminates == \A i \in Gens : (gen[i].kind = "video") ~> (gen[i].pc = "done")
VideoResultWithoutOverlap ==
    [][\A i \in Gens :
          (gen[i].kind = "video" /\ Ends(i) /\ ~gen'[i].overlapped) =>
              /\ isGenerating' = FALSE
              /\ Appended(messages', i, VideoOutcomes) = 1
              /\ generatedVideo' # 0 => gen'[i].outcome = "ok"]_vars

\* C10: when a handleGenerateImage invocation completes with no other
\* generation overlapping it, generatedImage is non-null iff the response
\* held an inline image part; with none, or when the call threw,
\* generatedImage is null and exactly one fallback message was appended.
C10_ImageResultMatchesResponse ==
    [][\A i \in Gens :
          (gen[i].kind = "image" /\ Ends(i) /\ ~gen'[i].overlapped) =>
              /\ generatedImage' # 0 <=> gen'[i].outcome = "ok"
              /\ gen'[i].outcome # "ok" =>
                    /\ generatedImage' = 0
                    /\ Appended(messages', i, ImageFallbacks) = 1
                    /\ Appended(messages', i, {"idea"}) = 0]_vars

\* C10 witness: an image invocation that returned an image ended without
\* overlap, and a later one without overlap ended with none
C10_Witness ==
    \E i, j \in Gens :
        /\ i < j
        /\ gen[i].kind = "image" /\ gen[i].pc = "done" /\ gen[i].outcome = "ok"
        /\ gen[j].kind = "image" /\ gen[j].pc = "done" /\ gen[j].outcome # "ok"
        /\ ~gen[i].overlapped /\ ~gen[j].overlapped
        /\ generatedImage = 0

====
